---- MODULE Spec2Model ----
(***************************************************************************)
(* Model of payrange_solution1.c: three FreeRTOS tasks of equal priority   *)
(* (Task A, Task B, the keyboard task) that share the globals              *)
(* currentRandomNumberFromTaskA, taskBStructure, valueEStructure and       *)
(* fileELineNumber, under the preemptive, time-sliced scheduler of the     *)
(* WIN32-MSVC port: a task can be preempted between any two accesses to    *)
(* shared memory, except inside portENTER_CRITICAL/portEXIT_CRITICAL.      *)
(*                                                                         *)
(* Data layout is the one of the WIN32-MSVC build: TickType_t is 32 bits,  *)
(* little-endian, int64_t is 8-byte aligned.  An int64_t is a tuple of     *)
(* four 16-bit words, least significant first; a char is its ASCII code.   *)
(***************************************************************************)
EXTENDS Integers, Sequences, FiniteSets, TLC

(***************************************************************************)
(* Bounds of the model.                                                    *)
(***************************************************************************)
\* number of tick strides the tick count may advance (one more in SpecTaskB)
MaxTicks == 1
\* number of values Task A publishes (one more in SpecTaskA, SpecCapture and
\* SpecTearing)
MaxAIters == 1
\* number of capture triggers (C key presses) (one more in Spec and SpecCapture)
MaxCaptures == 1
\* number of lookup triggers (G key presses) (one more in Spec)
MaxLookups == 1
\* the count of slot-selection attempts of one capture saturates here
MaxAttempts == 2

(***************************************************************************)
(* Program constants.                                                      *)
(***************************************************************************)
TASK_B_RUNTIME_IN_MS == 5000
NUMBER_OF_ALPHANUMERIC_DIGITS == 8
SIZE_OF_THE_TASK_B_ARRAY == 5
SIZE_OF_VALUE_E_STRUCTURE == 7
\* sizeof(taskBRandomString), char[NUMBER_OF_ALPHANUMERIC_DIGITS - 1]
SIZE_OF_RANDOM_STRING_BUFFER == 7
\* sizeof(stringPlacer), char[8]
SIZE_OF_STRING_PLACER == 8

(***************************************************************************)
(* 64-bit integers as four 16-bit words, least significant word first.     *)
(***************************************************************************)
WordBase == 65536

Int64Zero == <<0, 0, 0, 0>>

\* an int (0 .. 2^31-1) converted to int64_t
Int64FromInt(n) == <<n % WordBase, (n \div WordBase) % WordBase, 0, 0>>

\* x << 32 on int64_t: the two low words move up, the two high words are lost
ShiftLeft32(x) == <<0, 0, x[1], x[2]>>

RECURSIVE OrWord(_, _)
\* bitwise OR of two 16-bit words
OrWord(a, b) ==
    IF a = 0 THEN b
    ELSE IF b = 0 THEN a
    ELSE (IF (a % 2 = 1) \/ (b % 2 = 1) THEN 1 ELSE 0)
         + 2 * OrWord(a \div 2, b \div 2)

\* x | y on int64_t
BitOr(x, y) == [i \in 1..4 |-> OrWord(x[i], y[i])]

\* x + y on int64_t (modulo 2^64)
Add64(x, y) ==
    LET s1 == x[1] + y[1]
        s2 == x[2] + y[2] + (s1 \div WordBase)
        s3 == x[3] + y[3] + (s2 \div WordBase)
        s4 == x[4] + y[4] + (s3 \div WordBase)
    IN  <<s1 % WordBase, s2 % WordBase, s3 % WordBase, s4 % WordBase>>

\* x - y on int64_t, for x >= y >= 0
Sub64(x, y) ==
    LET d1 == x[1] - y[1]
        b1 == IF d1 < 0 THEN 1 ELSE 0
        d2 == x[2] - y[2] - b1
        b2 == IF d2 < 0 THEN 1 ELSE 0
        d3 == x[3] - y[3] - b2
        b3 == IF d3 < 0 THEN 1 ELSE 0
        d4 == x[4] - y[4] - b3
    IN  <<d1 % WordBase, d2 % WordBase, d3 % WordBase, d4 % WordBase>>

\* x < y for non-negative int64_t
Less64(x, y) ==
    \/ x[4] < y[4]
    \/ x[4] = y[4] /\ x[3] < y[3]
    \/ x[4] = y[4] /\ x[3] = y[3] /\ x[2] < y[2]
    \/ x[4] = y[4] /\ x[3] = y[3] /\ x[2] = y[2] /\ x[1] < y[1]

Leq64(x, y) == ~Less64(y, x)

\* bit i (0 = least significant) of x
Bit64(x, i) ==
    LET w == x[(i \div 16) + 1]
        RECURSIVE Shr(_, _)
        Shr(v, k) == IF k = 0 THEN v ELSE Shr(v \div 2, k - 1)
    IN  Shr(w, i % 16) % 2

RECURSIVE ModBits(_, _, _, _)
\* binary long division: the remainder of (bits 62..i of x, preceded by rem) by m
ModBits(x, m, rem, i) ==
    IF i < 0 THEN rem
    ELSE LET r2 == Add64(Add64(rem, rem), <<Bit64(x, i), 0, 0, 0>>)
         IN  IF Less64(r2, m)
             THEN ModBits(x, m, r2, i - 1)
             ELSE ModBits(x, m, Sub64(r2, m), i - 1)

\* x % m on int64_t, for x >= 0 (bit 63 clear) and 0 < m < 2^62
Mod64(x, m) == ModBits(x, m, Int64Zero, 62)

RECURSIVE Int64FromDecimal(_)
\* the int64_t written as the decimal digits ds
Int64FromDecimal(ds) ==
    IF ds = <<>> THEN Int64Zero
    ELSE LET h == Int64FromDecimal(SubSeq(ds, 1, Len(ds) - 1))
             p1 == h[1] * 10 + ds[Len(ds)]
             p2 == h[2] * 10 + (p1 \div WordBase)
             p3 == h[3] * 10 + (p2 \div WordBase)
             p4 == h[4] * 10 + (p3 \div WordBase)
         IN  <<p1 % WordBase, p2 % WordBase, p3 % WordBase, p4 % WordBase>>

\* 899999999999, the modulus of line 209
TaskAModulus == Int64FromDecimal(<<8, 9, 9, 9, 9, 9, 9, 9, 9, 9, 9, 9>>)
\* 100000000000, the offset of line 209
TaskAOffset == Int64FromDecimal(<<1, 0, 0, 0, 0, 0, 0, 0, 0, 0, 0, 0>>)
\* 1000000000000, the upper limit named by the assertion of line 212
TaskAAssertLimit == Int64FromDecimal(<<1, 0, 0, 0, 0, 0, 0, 0, 0, 0, 0, 0, 0>>)

\* the range the mutated reduction would use instead of TaskAModulus
TaskAReduce_WideModulus(x) ==
    Add64(Mod64(x, Int64FromDecimal(<<8, 9, 9, 9, 9, 9, 9, 9, 9, 9, 9, 9, 9>>)),
          TaskAOffset)

\* line 209: (generatedRandomNumber % 899999999999) + 100000000000
TaskAReduce(x) == Add64(Mod64(x, TaskAModulus), TaskAOffset)

\* lines 207-209, for the two values r1, r2 that rand() returns
TaskANumber(r1, r2) ==
    TaskAReduce(BitOr(ShiftLeft32(Int64FromInt(r1)), Int64FromInt(r2)))

\* the condition of configASSERT at line 212
TaskAAssertion(g) == Less64(TaskAOffset, g) \/ Less64(g, TaskAAssertLimit)


(***************************************************************************)
(* Bytes, C strings and the memory of taskBStructure and valueEStructure.  *)
(***************************************************************************)
\* "abcdefghijklmnopqrstuvwxyzABCDEFGHIJKLMNOPQRSTUVWXYZ0123456789" as ASCII codes
charset ==
    [i \in 1..62 |-> IF i <= 26 THEN 96 + i
                     ELSE IF i <= 52 THEN 38 + i
                     ELSE i - 5]

\* sizeof(charset) - 1
charsetLength == Len(charset)

\* the bytes generateRandomString(buffer, length) writes from buffer[0] on, when
\* rand() returns rs[1], rs[2], ...: length characters and the terminator
generateRandomString(rs, length) ==
    IF length # 0
    THEN [i \in 1..(length + 1) |->
             IF i <= length THEN charset[(rs[i] % charsetLength) + 1] ELSE 0]
    ELSE <<>>

\* generateIntRandomNumber(max), when rand() returns r
generateIntRandomNumber(r, max) == r % max

\* line 252: the slot of taskBStructure chosen when rand() returns r
SlotChosenForB(r) == generateIntRandomNumber(r, SIZE_OF_THE_TASK_B_ARRAY - 1)

\* line 358: the slot of valueEStructure chosen when rand() returns r
SlotChosenForF(r) == generateIntRandomNumber(r, SIZE_OF_VALUE_E_STRUCTURE - 1)

\* the four bytes of a TickType_t, least significant first
TimeBytes(t) ==
    <<t % 256, (t \div 256) % 256, (t \div 65536) % 256, (t \div 16777216) % 256>>

TimeFromBytes(b) == b[1] + 256 * b[2] + 65536 * b[3] + 16777216 * b[4]

\* sizeof(taskBStructure_t): stringTime (4 bytes) then stringPlacer (8 bytes)
SizeOfTaskBStructure == 4 + SIZE_OF_STRING_PLACER

SlotsB == 0..(SIZE_OF_THE_TASK_B_ARRAY - 1)
SlotsF == 0..(SIZE_OF_VALUE_E_STRUCTURE - 1)

ZeroBytes(n) == [i \in 1..n |-> 0]

\* the bytes of the array taskBStructure, element after element
MemoryOfB(tb) ==
    [k \in 1..(SIZE_OF_THE_TASK_B_ARRAY * SizeOfTaskBStructure) |->
        LET s == (k - 1) \div SizeOfTaskBStructure
            o == (k - 1) % SizeOfTaskBStructure
        IN  IF o < 4 THEN TimeBytes(tb[s].stringTime)[o + 1]
            ELSE tb[s].stringPlacer[o - 3]]

\* the array taskBStructure that the bytes mem hold
StructureOfB(mem) ==
    [s \in SlotsB |->
        [stringTime   |-> TimeFromBytes(SubSeq(mem, s * SizeOfTaskBStructure + 1,
                                               s * SizeOfTaskBStructure + 4)),
         stringPlacer |-> SubSeq(mem, s * SizeOfTaskBStructure + 5,
                                 (s + 1) * SizeOfTaskBStructure)]]

\* the byte offset of taskBStructure[s].stringPlacer in the array
OffsetOfStringPlacer(s) == s * SizeOfTaskBStructure + 4

\* mem after bytes are stored from byte offset off on (stores past the end of
\* mem are dropped: no execution of the model reaches one)
StoreBytes(mem, off, bytes) ==
    [k \in 1..Len(mem) |->
        IF (k - 1 >= off) /\ (k - 1 < off + Len(bytes))
        THEN bytes[k - off] ELSE mem[k]]

RECURSIVE CString(_, _)
\* the C string that starts at byte offset off of mem: the bytes up to the
\* first terminator, wherever it lies
CString(mem, off) ==
    IF (off >= Len(mem)) \/ (mem[off + 1] = 0) THEN <<>>
    ELSE <<mem[off + 1]>> \o CString(mem, off + 1)

\* strcpy(destination at offset off of mem, source): the characters of the
\* source and its terminator, with no regard for the size of the destination
StrCpy(mem, off, source) == StoreBytes(mem, off, source \o <<0>>)

\* line 255: strcpy(taskBStructure[s].stringPlacer, source)
StoreStringInB(tb, s, source) ==
    StructureOfB(StrCpy(MemoryOfB(tb), OffsetOfStringPlacer(s), source))

\* the C string read at taskBStructure[s].stringPlacer
StringOfB(tb, s) == CString(MemoryOfB(tb), OffsetOfStringPlacer(s))

ZeroTaskB == [stringTime |-> 0, stringPlacer |-> ZeroBytes(SIZE_OF_STRING_PLACER)]

\* sizeof(valueE_t).  currentValueD is 8-byte aligned, and so is its
\* randomNumber: randomValueB lies at bytes 0-11, 4 bytes of padding at 12-15,
\* randomNumberTime at 16-19, 4 bytes of padding at 20-23, randomNumber at 24-31
SizeOfValueE == 2 * (SizeOfTaskBStructure + 4)

\* one zero-initialized element of valueEStructure, with its padding
ZeroValueE ==
    [randomValueB  |-> ZeroTaskB,
     paddingB      |-> ZeroBytes(4),
     currentValueD |-> [randomNumberTime |-> 0, randomNumber |-> Int64Zero],
     paddingD      |-> ZeroBytes(4)]

\* the eight bytes of an int64_t, least significant first
Int64Bytes(x) ==
    <<x[1] % 256, x[1] \div 256, x[2] % 256, x[2] \div 256,
      x[3] % 256, x[3] \div 256, x[4] % 256, x[4] \div 256>>

Int64FromBytes(b) ==
    <<b[1] + 256 * b[2], b[3] + 256 * b[4], b[5] + 256 * b[6], b[7] + 256 * b[8]>>

\* the bytes of one element of valueEStructure
BytesOfValueE(e) ==
    TimeBytes(e.randomValueB.stringTime) \o e.randomValueB.stringPlacer
        \o e.paddingB \o TimeBytes(e.currentValueD.randomNumberTime)
        \o e.paddingD \o Int64Bytes(e.currentValueD.randomNumber)

\* the element of valueEStructure that the bytes b hold
ValueEOfBytes(b) ==
    [randomValueB  |-> [stringTime   |-> TimeFromBytes(SubSeq(b, 1, 4)),
                        stringPlacer |-> SubSeq(b, 5, 12)],
     paddingB      |-> SubSeq(b, 13, 16),
     currentValueD |-> [randomNumberTime |-> TimeFromBytes(SubSeq(b, 17, 20)),
                        randomNumber     |-> Int64FromBytes(SubSeq(b, 25, 32))],
     paddingD      |-> SubSeq(b, 21, 24)]

RECURSIVE MemoryOfEFrom(_, _)
\* the bytes of the elements f, f + 1, ... of the array valueEStructure
MemoryOfEFrom(ve, f) ==
    IF f >= SIZE_OF_VALUE_E_STRUCTURE THEN <<>>
    ELSE BytesOfValueE(ve[f]) \o MemoryOfEFrom(ve, f + 1)

\* the bytes of the array valueEStructure, element after element
MemoryOfE(ve) == MemoryOfEFrom(ve, 0)

\* the array valueEStructure that the bytes mem hold
StructureOfE(mem) ==
    [f \in SlotsF |->
        ValueEOfBytes(SubSeq(mem, f * SizeOfValueE + 1, (f + 1) * SizeOfValueE))]

\* the byte offset of valueEStructure[f].randomValueB.stringPlacer in the array
OffsetOfStringPlacerE(f) == f * SizeOfValueE + 4

\* the C string read at valueEStructure[f].randomValueB.stringPlacer
StringOfE(ve, f) == CString(MemoryOfE(ve), OffsetOfStringPlacerE(f))


(***************************************************************************)
(* The values rand() returns in the model, and the keys and inputs.        *)
(***************************************************************************)
\* pairs of rand() results for lines 207-208
RandForTaskA == {<<0, 0>>, <<32767, 32767>>}
\* rand() results for lines 207-208 in SpecTaskA (0 .. RAND_MAX, and RAND_MAX
\* is 32767 on MSVC and at most INT_MAX)
RandForTaskAWide ==
    {0, 1, 209, 419, 12345, 32767, 65536, 408702973, 408702974, 2147483647}
\* what lines 207-209 compute from these results
GeneratedNumbers == {TaskANumber(r[1], r[2]) : r \in RandForTaskA}
GeneratedNumbersWide ==
    {TaskANumber(r1, r2) : r1 \in RandForTaskAWide, r2 \in RandForTaskAWide}
\* rand() results for one call of generateRandomString: the same result for
\* every character
RandForString == {0}
\* the same, in SpecTaskB
RandForStringWide == {0, 123}
\* where the build places the locals of privateTaskB: "apart" when nothing
\* that is used lies in the two bytes past taskBRandomString, "tick_at_7" and
\* "slot_at_7" when currentTickTime or randomSlot starts at the first byte
\* past it, "tick_at_8" and "slot_at_8" when it starts at the second,
\* "pointer" when randomStringPointer lies there
StackLayouts == {"apart"}
\* the same, in SpecTaskB
StackLayoutsWide ==
    {"apart", "tick_at_7", "tick_at_8", "slot_at_7", "slot_at_8", "pointer"}
\* rand() results for line 252
RandForSlotOfB == {1}
\* the same, in SpecTaskB
RandForSlotOfBWide == 0..4
\* the same, in SpecLongRun
RandForSlotOfBLongRun == {1, 2}
\* the same, in SpecPairing
RandForSlotOfBPairing == {0, 1}
\* rand() results for line 343
RandForSelection == {0, 1, 4}
\* rand() results for line 358
RandForSlotOfF == {0, 5}

\* results of rand() with every remainder modulo 4, 5 and 6, the divisors of
\* lines 252, 343 and 358 (60 is their least common multiple)
RandResidues == 0..59

\* _getch(): 'C', 'c', 'G', 'g' and another key
KeyC == {67, 99}
KeyG == {71, 103}
KeyOther == {120}

\* 999999999999, a value Task A never publishes
NeverPublished == Int64FromDecimal(<<9, 9, 9, 9, 9, 9, 9, 9, 9, 9, 9, 9>>)

\* what the operator types at the prompt of line 433 and scanf converts
LookupInputs ==
    {Int64Zero, NeverPublished} \cup GeneratedNumbers

\* what userInputAValue, which is not initialized, holds when scanf converts
\* nothing
Indeterminate == {Int64Zero, TaskANumber(32767, 32767)}

(***************************************************************************)
(* State.                                                                  *)
(***************************************************************************)
VARIABLES
    xTickCount,                   \* the tick count of the kernel
    halted,                       \* the process has stopped (failed assertion, crash)
    \* Task A
    apc,                          \* "generate", "print", "delay"
    generatedRandomNumber,        \* local of privateTaskA
    currentRandomNumberFromTaskA,
    taskASuspended,               \* Task A is in the Suspended state
    stdoutA,                      \* [count, last]: lines printed by line 214 since the initial state
    \* Task B
    bpc,                          \* "generate", "slot", "copy", "delay"
    taskBRandomString,            \* the bytes at taskBRandomString, 9 of them
    currentTickTimeB,             \* local currentTickTime of privateTaskB
    randomSlot,                   \* local of privateTaskB
    bWakeTime,                    \* tick count at which vTaskDelay of line 265 ends
    stackOfTaskB,                 \* the layout of the locals of privateTaskB
    taskBStructure,
    \* keyboard task
    kpc,                          \* "idle" or the position in a handler
    currentTickTime,              \* local of handleInterruptC
    valueDStructure,              \* local of handleInterruptC
    randomSlotB,                  \* local of handleInterruptC
    randomSlotF,                  \* local of handleInterruptC
    userInputAValue,              \* local of handleInterruptG
    lookupOutput,                 \* lines printed by lines 444 and 452
    valueEStructure,
    fileELineNumber,
    fileE,                        \* E.txt: [exists, lines]
    \* history
    captures,                     \* capture triggers so far
    lookups,                      \* lookup triggers so far
    attempts,                     \* failed slot selections of this loop (saturating)
    history                       \* record of what the properties below refer to

vars == <<xTickCount, halted, apc, generatedRandomNumber,
          currentRandomNumberFromTaskA, taskASuspended, stdoutA, bpc,
          taskBRandomString, currentTickTimeB, randomSlot, bWakeTime,
          stackOfTaskB, taskBStructure, kpc, currentTickTime, valueDStructure, randomSlotB,
          randomSlotF, userInputAValue, lookupOutput, valueEStructure,
          fileELineNumber, fileE, captures, lookups, attempts, history>>

varsA == <<apc, generatedRandomNumber, currentRandomNumberFromTaskA, stdoutA>>
varsB == <<bpc, taskBRandomString, currentTickTimeB, randomSlot, bWakeTime,
           stackOfTaskB, taskBStructure>>
varsK == <<kpc, currentTickTime, valueDStructure, randomSlotB, randomSlotF,
           userInputAValue, lookupOutput, valueEStructure, fileELineNumber,
           fileE, captures, lookups, attempts>>

NoValueD == [randomNumberTime |-> 0, randomNumber |-> Int64Zero]

\* no capture has written the slot
NoPair == [value |-> Int64Zero, stringTime |-> 0, stringPlacer |-> <<>>]

\* a line of E.txt left by an earlier session
StaleLine ==
    [line |-> 3, stringTime |-> 1, stringPlacer |-> <<97>>,
     randomNumberTime |-> 2, randomNumber |-> NeverPublished]

InitHistory ==
    [bAtStart        |-> [s \in SlotsB |-> ZeroTaskB],   \* taskBStructure when this tick of Task B began
     bWritten        |-> {},                             \* slots Task B has written
     bPairs          |-> {},                             \* the stringTime and string of each pass of Task B
     fAtTrigger      |-> [f \in SlotsF |-> ZeroValueE],  \* valueEStructure when this capture began
     fWritten        |-> {},                             \* slots captures have written
     paired          |-> [f \in SlotsF |-> NoPair],      \* what the last capture into the slot paired
     emptyAtTrigger  |-> FALSE,                          \* no slot of B was written when this capture began
     fastValueAtSnapshot |-> Int64Zero,                  \* currentRandomNumberFromTaskA when line 336 read it
     capturesDone    |-> 0,                              \* captures that have returned
     sinceCapture    |-> {},                             \* <<query, output>> of the lookups since the last capture
     malformed       |-> FALSE,                          \* scanf converted nothing in this lookup
     resumedMalformed |-> FALSE,                         \* a lookup whose scanf converted nothing has returned
     suspends        |-> 0,                              \* calls of vTaskSuspend
     resumes         |-> 0]                              \* calls of vTaskResume

\* main_payrange, lines 121-138, and the zero-initialized globals, in a build
\* whose layout of the locals of privateTaskB is one of layouts
InitWith(layouts) ==
    /\ xTickCount = 0
    /\ halted = FALSE
    /\ apc = "generate"
    /\ generatedRandomNumber = Int64Zero
    /\ currentRandomNumberFromTaskA = Int64Zero
    /\ taskASuspended = FALSE
    /\ stdoutA = [count |-> 0, last |-> Int64Zero]
    /\ bpc = "generate"
    /\ taskBRandomString = <<>>
    /\ currentTickTimeB = 0
    /\ randomSlot = 0
    /\ bWakeTime = 0
    /\ stackOfTaskB \in layouts
    /\ taskBStructure = [s \in SlotsB |-> ZeroTaskB]
    /\ kpc = "idle"
    /\ currentTickTime = 0
    /\ valueDStructure = NoValueD
    /\ randomSlotB = 0
    /\ randomSlotF = 0
    /\ userInputAValue = Int64Zero
    /\ lookupOutput = <<>>
    /\ valueEStructure = [f \in SlotsF |-> ZeroValueE]
    /\ fileELineNumber = 0
    /\ fileE \in {[exists |-> FALSE, lines |-> <<>>],
                  [exists |-> TRUE, lines |-> <<StaleLine>>]}
    /\ captures = 0
    /\ lookups = 0
    /\ attempts = 0
    /\ history = InitHistory

Init == InitWith(StackLayouts)

\* a tick count the kernel reaches after 3369 periods of Task B (more than
\* four hours at 1000 ticks per second): the four bytes of it and of the
\* tick count one period later are all different from 0
LongRunTick == 16845000

\* the string Task B generates when rand() returns 0 for every character
StringOfZeros ==
    generateRandomString([i \in 1..NUMBER_OF_ALPHANUMERIC_DIGITS |-> 0],
                         NUMBER_OF_ALPHANUMERIC_DIGITS)

\* the state at the tick LongRunTick when, since main_payrange, rand() has
\* returned 0 to Task A and Task B, Task B has completed the pass of the
\* period before and no key has been pressed: Task B has stored every string
\* into slot 0.  stdoutA counts the lines Task A prints from this state on.
InitLongRun ==
    /\ xTickCount = LongRunTick
    /\ halted = FALSE
    /\ apc = "generate"
    /\ generatedRandomNumber = TaskANumber(0, 0)
    /\ currentRandomNumberFromTaskA = TaskANumber(0, 0)
    /\ taskASuspended = FALSE
    /\ stdoutA = [count |-> 0, last |-> TaskANumber(0, 0)]
    /\ bpc = "generate"
    /\ taskBRandomString = StringOfZeros
    /\ currentTickTimeB = 0
    /\ randomSlot = 0
    /\ bWakeTime = LongRunTick
    /\ stackOfTaskB \in StackLayouts
    /\ taskBStructure =
          StoreStringInB([[s \in SlotsB |-> ZeroTaskB] EXCEPT
                              ![0].stringTime = LongRunTick - TASK_B_RUNTIME_IN_MS],
                         0, CString(StringOfZeros, 0))
    /\ kpc = "idle"
    /\ currentTickTime = 0
    /\ valueDStructure = NoValueD
    /\ randomSlotB = 0
    /\ randomSlotF = 0
    /\ userInputAValue = Int64Zero
    /\ lookupOutput = <<>>
    /\ valueEStructure = [f \in SlotsF |-> ZeroValueE]
    /\ fileELineNumber = 0
    /\ fileE \in {[exists |-> FALSE, lines |-> <<>>],
                  [exists |-> TRUE, lines |-> <<StaleLine>>]}
    /\ captures = 0
    /\ lookups = 0
    /\ attempts = 0
    /\ history = [InitHistory EXCEPT
                     !.bAtStart = taskBStructure,
                     !.bWritten = {0},
                     !.bPairs = {[stringTime   |-> LongRunTick - TASK_B_RUNTIME_IN_MS,
                                  stringPlacer |-> CString(StringOfZeros, 0)]}]

InitTaskB == InitWith(StackLayoutsWide)

(***************************************************************************)
(* The tick interrupt.  The model advances the tick count in strides of    *)
(* the period of Task B.                                                   *)
(***************************************************************************)
TickStride == TASK_B_RUNTIME_IN_MS

\* A ready task runs within a few ticks, so that Task B, once its delay has
\* ended, has gone through its cycle and is delayed again before a stride ends.
Tick(first, limit) ==
    /\ ~halted
    /\ xTickCount < first + limit * TickStride
    /\ bpc = "generate"
    /\ xTickCount < bWakeTime
    /\ xTickCount' = xTickCount + TickStride
    /\ UNCHANGED <<halted, taskASuspended, history>>
    /\ UNCHANGED <<varsA, varsB, varsK>>

(***************************************************************************)
(* Task A, lines 204-217.                                                  *)
(***************************************************************************)
\* the mutated scheduler runs a suspended task
TaskARunnable_IgnoringSuspend == ~halted

\* Task A is scheduled only while it is not suspended (vTaskSuspend, line 431)
TaskARunnable == ~halted /\ ~taskASuspended

\* lines 207-210: generate the number g (TaskANumber of the two results of
\* rand()) and publish it
A_Generate(g, limit) ==
    /\ TaskARunnable
    /\ apc = "generate"
    /\ stdoutA.count < limit
    /\ generatedRandomNumber' = g
    /\ currentRandomNumberFromTaskA' = generatedRandomNumber'
    /\ apc' = "print"
    /\ UNCHANGED <<xTickCount, halted, taskASuspended, stdoutA, history>>
    /\ UNCHANGED <<varsB, varsK>>

\* the two low words of x with the two high words of y
LowOfWithHighOf(x, y) == <<x[1], x[2], y[3], y[4]>>

\* lines 207-210 in a build for a 32-bit processor (the Win32 platform of the
\* WIN32-MSVC project), where the store of line 210 is two 32-bit stores and
\* Task A can be preempted between them: generate g, store its low half
A_StoreLow(g, limit) ==
    /\ TaskARunnable
    /\ apc = "generate"
    /\ stdoutA.count < limit
    /\ generatedRandomNumber' = g
    /\ currentRandomNumberFromTaskA' =
          LowOfWithHighOf(g, currentRandomNumberFromTaskA)
    /\ apc' = "store_high"
    /\ UNCHANGED <<xTickCount, halted, taskASuspended, stdoutA, history>>
    /\ UNCHANGED <<varsB, varsK>>

\* line 210 in that build: store the high half
A_StoreHigh ==
    /\ TaskARunnable
    /\ apc = "store_high"
    /\ currentRandomNumberFromTaskA' =
          LowOfWithHighOf(currentRandomNumberFromTaskA, generatedRandomNumber)
    /\ apc' = "print"
    /\ UNCHANGED <<xTickCount, halted, generatedRandomNumber, taskASuspended,
                   stdoutA, history>>
    /\ UNCHANGED <<varsB, varsK>>

\* lines 212-214: the assertion, then printf
A_Print ==
    /\ TaskARunnable
    /\ apc = "print"
    /\ IF TaskAAssertion(generatedRandomNumber)
       THEN /\ stdoutA' = [count |-> stdoutA.count + 1, last |-> generatedRandomNumber]
            /\ apc' = "delay"
            /\ UNCHANGED halted
       ELSE /\ halted' = TRUE
            /\ UNCHANGED <<stdoutA, apc>>
    /\ UNCHANGED <<xTickCount, generatedRandomNumber, currentRandomNumberFromTaskA,
                   taskASuspended, history>>
    /\ UNCHANGED <<varsB, varsK>>

\* line 216: vTaskDelay; the delay of 250 ticks ends within one stride
A_Delay ==
    /\ TaskARunnable
    /\ apc = "delay"
    /\ apc' = "generate"
    /\ UNCHANGED <<xTickCount, halted, generatedRandomNumber,
                   currentRandomNumberFromTaskA, taskASuspended, stdoutA, history>>
    /\ UNCHANGED <<varsB, varsK>>

(***************************************************************************)
(* Task B, lines 243-266.                                                  *)
(***************************************************************************)
\* an earlier pass of line 246 has written its two bytes past the buffer into
\* randomStringPointer (lines 234-235)
PointerOverwritten == (stackOfTaskB = "pointer") /\ (taskBRandomString # <<>>)

\* lines 246-250: generate the string into taskBRandomString, read the tick
\* count.  generateRandomString is asked for NUMBER_OF_ALPHANUMERIC_DIGITS
\* characters and writes 9 bytes from the address in randomStringPointer, the
\* start of the 7-byte buffer.  Once the pointer is overwritten the 9 bytes go
\* elsewhere and the buffer keeps its string, or (faults) the write ends the
\* process.
B_Generate(r, faults) ==
    /\ ~halted
    /\ bpc = "generate"
    /\ xTickCount >= bWakeTime
    /\ IF PointerOverwritten /\ faults
       THEN /\ halted' = TRUE
            /\ UNCHANGED <<taskBRandomString, currentTickTimeB, bpc, history>>
       ELSE /\ taskBRandomString' =
                  IF PointerOverwritten
                  THEN taskBRandomString
                  ELSE generateRandomString(
                           [i \in 1..NUMBER_OF_ALPHANUMERIC_DIGITS |-> r],
                           NUMBER_OF_ALPHANUMERIC_DIGITS)
            /\ currentTickTimeB' = xTickCount
            /\ bpc' = "slot"
            /\ history' = [history EXCEPT !.bAtStart = taskBStructure]
            /\ UNCHANGED halted
    /\ UNCHANGED <<xTickCount, taskASuspended, randomSlot, bWakeTime,
                   stackOfTaskB, taskBStructure>>
    /\ UNCHANGED <<varsA, varsK>>

\* lines 252-254: choose the slot, store the time
B_StoreTime(r) ==
    /\ ~halted
    /\ bpc = "slot"
    /\ randomSlot' = SlotChosenForB(r)
    /\ taskBStructure' =
          [taskBStructure EXCEPT ![randomSlot'].stringTime = currentTickTimeB]
    /\ bpc' = "copy"
    /\ UNCHANGED <<xTickCount, halted, taskASuspended, taskBRandomString,
                   currentTickTimeB, bWakeTime, stackOfTaskB, history>>
    /\ UNCHANGED <<varsA, varsK>>

\* line 255 reads taskBRandomString as a string.  Lines 250 and 252 have
\* stored currentTickTime and randomSlot since line 246 wrote the two bytes
\* past the buffer; what the read finds there depends on the layout
BufferAsRead(layout, buffer, tick, slot) ==
    IF layout \in {"apart", "pointer"}
    THEN buffer
    ELSE LET kept  == IF layout \in {"tick_at_7", "slot_at_7"}
                      THEN SIZE_OF_RANDOM_STRING_BUFFER
                      ELSE SIZE_OF_RANDOM_STRING_BUFFER + 1
             local == IF layout \in {"tick_at_7", "tick_at_8"} THEN tick ELSE slot
         IN  SubSeq(buffer, 1, kept) \o TimeBytes(local) \o <<0>>

\* line 255: strcpy of the generated string into the slot
B_StoreString ==
    /\ ~halted
    /\ bpc = "copy"
    /\ taskBStructure' =
          StoreStringInB(taskBStructure, randomSlot,
                         CString(BufferAsRead(stackOfTaskB, taskBRandomString,
                                              currentTickTimeB, randomSlot), 0))
    /\ bpc' = "delay"
    /\ history' =
          [history EXCEPT
              !.bWritten = @ \cup {randomSlot},
              !.bPairs = @ \cup
                  {[stringTime   |-> taskBStructure[randomSlot].stringTime,
                    stringPlacer |-> CString(BufferAsRead(stackOfTaskB,
                                                          taskBRandomString,
                                                          currentTickTimeB,
                                                          randomSlot), 0)]}]
    /\ UNCHANGED <<xTickCount, halted, taskASuspended, taskBRandomString,
                   currentTickTimeB, randomSlot, bWakeTime, stackOfTaskB>>
    /\ UNCHANGED <<varsA, varsK>>

\* line 265: vTaskDelay(TASK_B_RUNTIME_IN_MS)
B_Delay ==
    /\ ~halted
    /\ bpc = "delay"
    /\ bWakeTime' = xTickCount + TASK_B_RUNTIME_IN_MS
    /\ bpc' = "generate"
    /\ currentTickTimeB' = 0
    /\ randomSlot' = 0
    /\ history' = [history EXCEPT !.bAtStart = taskBStructure]
    /\ UNCHANGED <<xTickCount, halted, taskASuspended, taskBRandomString,
                   stackOfTaskB, taskBStructure>>
    /\ UNCHANGED <<varsA, varsK>>


(***************************************************************************)
(* The keyboard task, lines 283-313, and handleInterruptC, lines 324-370.  *)
(***************************************************************************)
\* the mutated dispatch runs a handler while handleInterruptC is storing, as
\* an interrupt service routine would
KeyboardIdle_Reentrant == kpc \in {"idle", "c_copy"}

\* lines 283-294: the keyboard task reads a key at one place of its loop only;
\* handleInterruptC and handleInterruptG are plain calls (lines 300, 305) that
\* return before the loop reads the next key
KeyboardIdle == kpc = "idle"

\* every slot of taskBStructure is as main_payrange found it
NothingInB == taskBStructure = [s \in SlotsB |-> ZeroTaskB]

\* lines 286-300 and 334: a C key is read; handleInterruptC reads the tick count
K_KeyC(key, limit) ==
    /\ ~halted
    /\ KeyboardIdle
    /\ key \in KeyC
    /\ captures < limit
    /\ captures' = captures + 1
    /\ currentTickTime' = xTickCount
    /\ attempts' = 0
    /\ kpc' = "c_snapshot"
    /\ history' = [history EXCEPT !.fAtTrigger = valueEStructure,
                                  !.emptyAtTrigger = NothingInB,
                                  !.sinceCapture = {}]
    /\ UNCHANGED <<xTickCount, halted, taskASuspended, valueDStructure, randomSlotB,
                   randomSlotF, userInputAValue, lookupOutput, valueEStructure,
                   fileELineNumber, fileE, lookups>>
    /\ UNCHANGED <<varsA, varsB>>

\* lines 286-294 and 308-310: another key is read and dropped
K_KeyOther(key) ==
    /\ ~halted
    /\ KeyboardIdle
    /\ key \notin (KeyC \cup KeyG)
    /\ UNCHANGED vars

\* line 336: the value read as D
SnapshotOfA == currentRandomNumberFromTaskA

\* lines 336-337: save off the value D
C_Snapshot ==
    /\ ~halted
    /\ kpc = "c_snapshot"
    /\ valueDStructure' = [randomNumberTime |-> currentTickTime,
                           randomNumber     |-> SnapshotOfA]
    /\ kpc' = "c_select"
    /\ history' = [history EXCEPT !.fastValueAtSnapshot = currentRandomNumberFromTaskA]
    /\ UNCHANGED <<xTickCount, halted, taskASuspended, currentTickTime, randomSlotB,
                   randomSlotF, userInputAValue, lookupOutput, valueEStructure,
                   fileELineNumber, fileE, captures, lookups, attempts>>
    /\ UNCHANGED <<varsA, varsB>>

\* line 336 in a build for a 32-bit processor, where the read of
\* currentRandomNumberFromTaskA is two 32-bit loads and the keyboard task can
\* be preempted between them: load and store the low half
C_SnapshotLow ==
    /\ ~halted
    /\ kpc = "c_snapshot"
    /\ valueDStructure' =
          [valueDStructure EXCEPT
              !.randomNumber = LowOfWithHighOf(currentRandomNumberFromTaskA, @)]
    /\ kpc' = "c_snapshot_high"
    /\ UNCHANGED <<xTickCount, halted, taskASuspended, currentTickTime, randomSlotB,
                   randomSlotF, userInputAValue, lookupOutput, valueEStructure,
                   fileELineNumber, fileE, captures, lookups, attempts, history>>
    /\ UNCHANGED <<varsA, varsB>>

\* lines 336-337 in that build: load and store the high half, then the time
C_SnapshotHigh ==
    /\ ~halted
    /\ kpc = "c_snapshot_high"
    /\ valueDStructure' =
          [randomNumberTime |-> currentTickTime,
           randomNumber     |-> LowOfWithHighOf(valueDStructure.randomNumber,
                                                currentRandomNumberFromTaskA)]
    /\ kpc' = "c_select"
    /\ history' = [history EXCEPT
                      !.fastValueAtSnapshot = valueDStructure'.randomNumber]
    /\ UNCHANGED <<xTickCount, halted, taskASuspended, currentTickTime, randomSlotB,
                   randomSlotF, userInputAValue, lookupOutput, valueEStructure,
                   fileELineNumber, fileE, captures, lookups, attempts>>
    /\ UNCHANGED <<varsA, varsB>>

\* line 344: the slot s of taskBStructure counts as not populated
SlotOfBIsEmpty(tb, s) == tb[s].stringTime = 0

\* lines 341-355: one pass of the loop that looks for a valid value B
C_Select(r) ==
    /\ ~halted
    /\ kpc = "c_select"
    /\ randomSlotB' = generateIntRandomNumber(r, SIZE_OF_THE_TASK_B_ARRAY)
    /\ IF SlotOfBIsEmpty(taskBStructure, randomSlotB')
       THEN /\ kpc' = "c_select"
            /\ attempts' = IF attempts < MaxAttempts THEN attempts + 1 ELSE attempts
       ELSE /\ kpc' = "c_store_time"
            /\ attempts' = 0
    /\ UNCHANGED <<xTickCount, halted, taskASuspended, currentTickTime,
                   valueDStructure, randomSlotF, userInputAValue, lookupOutput,
                   valueEStructure, fileELineNumber, fileE, captures, lookups,
                   history>>
    /\ UNCHANGED <<varsA, varsB>>

\* lines 358-360: choose the slot of F, copy the time of the chosen B
C_StoreTime(r) ==
    /\ ~halted
    /\ kpc = "c_store_time"
    /\ randomSlotF' = SlotChosenForF(r)
    /\ valueEStructure' =
          [valueEStructure EXCEPT ![randomSlotF'].randomValueB.stringTime =
                                      taskBStructure[randomSlotB].stringTime]
    /\ kpc' = "c_copy"
    /\ UNCHANGED <<xTickCount, halted, taskASuspended, currentTickTime,
                   valueDStructure, randomSlotB, userInputAValue, lookupOutput,
                   fileELineNumber, fileE, captures, lookups, attempts, history>>
    /\ UNCHANGED <<varsA, varsB>>

\* lines 362-363: store the value D into the slot of F
StoreValueD(ve, f, d) == [ve EXCEPT ![f].currentValueD = d]

\* line 361: strcpy of the string of the chosen B into the slot of F
StoreStringInE(ve, f, source) ==
    StructureOfE(StrCpy(MemoryOfE(ve), OffsetOfStringPlacerE(f), source))

\* lines 361-363
C_Copy ==
    /\ ~halted
    /\ kpc = "c_copy"
    /\ valueEStructure' =
          StoreValueD(StoreStringInE(valueEStructure, randomSlotF,
                                     StringOfB(taskBStructure, randomSlotB)),
                      randomSlotF, valueDStructure)
    /\ kpc' = "c_log"
    /\ history' =
          [history EXCEPT
              !.fWritten = @ \cup {randomSlotF},
              !.paired[randomSlotF] =
                  [value        |-> valueDStructure.randomNumber,
                   stringTime   |-> valueEStructure[randomSlotF].randomValueB.stringTime,
                   stringPlacer |-> StringOfB(taskBStructure, randomSlotB)]]
    /\ UNCHANGED <<xTickCount, halted, taskASuspended, currentTickTime,
                   valueDStructure, randomSlotB, randomSlotF, userInputAValue,
                   lookupOutput, fileELineNumber, fileE, captures, lookups,
                   attempts>>
    /\ UNCHANGED <<varsA, varsB>>

(***************************************************************************)
(* writeToFileE, lines 380-415: one critical section.                      *)
(***************************************************************************)
\* the mutated line is made of the value Task A publishes now
LineOfE_CurrentA(n, ve, f) ==
    [line             |-> n,
     stringTime       |-> ve[f].randomValueB.stringTime,
     stringPlacer     |-> StringOfE(ve, f),
     randomNumberTime |-> ve[f].currentValueD.randomNumberTime,
     randomNumber     |-> currentRandomNumberFromTaskA]

\* lines 405-409: the line fprintf writes for the element f of valueEStructure
LineOfE(n, ve, f) ==
    [line             |-> n,
     stringTime       |-> ve[f].randomValueB.stringTime,
     stringPlacer     |-> StringOfE(ve, f),
     randomNumberTime |-> ve[f].currentValueD.randomNumberTime,
     randomNumber     |-> ve[f].currentValueD.randomNumber]

\* the mutated counter is not advanced by line 410
NextLineNumber_Stuck(n) == n

\* line 410: fileELineNumber++
NextLineNumber(n) == n + 1

\* lines 388-400: E.txt is appended to when it exists and a line was written
\* in this session, and is created or truncated otherwise
AppendsToFileE == fileE.exists /\ (fileELineNumber # 0)

\* line 398 passes to fclose the null pointer that fopen of a missing file returned
ClosesNull == ~AppendsToFileE /\ ~fileE.exists

\* line 366 and lines 380-415.  closeReturns: fclose of a null pointer returns
\* (the behaviour is undefined: it may also end the process).  opened: fopen
\* of line 393 or 399 succeeds (otherwise the assertion of line 402 fails).
C_WriteToFileE(closeReturns, opened) ==
    /\ ~halted
    /\ kpc = "c_log"
    /\ IF (ClosesNull /\ ~closeReturns) \/ ~opened
       THEN /\ halted' = TRUE
            /\ UNCHANGED <<kpc, fileELineNumber, fileE>>
       ELSE /\ fileE' =
                  [exists |-> TRUE,
                   lines  |-> Append(IF AppendsToFileE THEN fileE.lines ELSE <<>>,
                                     LineOfE(fileELineNumber, valueEStructure,
                                             randomSlotF))]
            /\ fileELineNumber' = NextLineNumber(fileELineNumber)
            /\ kpc' = "c_return"
            /\ UNCHANGED halted
    /\ UNCHANGED <<xTickCount, taskASuspended, currentTickTime, valueDStructure,
                   randomSlotB, randomSlotF, userInputAValue, lookupOutput,
                   valueEStructure, captures, lookups, attempts, history>>
    /\ UNCHANGED <<varsA, varsB>>

\* lines 368-370: handleInterruptC returns to the keyboard task
C_Return ==
    /\ ~halted
    /\ kpc = "c_return"
    /\ kpc' = "idle"
    /\ currentTickTime' = 0
    /\ valueDStructure' = NoValueD
    /\ randomSlotB' = 0
    /\ randomSlotF' = 0
    /\ attempts' = 0
    /\ history' = [history EXCEPT !.fAtTrigger = valueEStructure,
                                  !.emptyAtTrigger = FALSE,
                                  !.fastValueAtSnapshot = Int64Zero,
                                  !.capturesDone = @ + 1]
    /\ UNCHANGED <<xTickCount, halted, taskASuspended, userInputAValue,
                   lookupOutput, valueEStructure, fileELineNumber, fileE,
                   captures, lookups>>
    /\ UNCHANGED <<varsA, varsB>>

(***************************************************************************)
(* handleInterruptG, lines 426-456.                                        *)
(***************************************************************************)
\* line 431: vTaskSuspend(xTaskAHandle)
SuspendTaskA == TRUE

\* the mutated handler resumes Task A only when the value was found
ResumeTaskA_OnlyWhenFound ==
    IF \E i \in 1..Len(lookupOutput) : lookupOutput[i].kind = "found"
    THEN FALSE ELSE taskASuspended

\* line 455: vTaskResume(xTaskAHandle)
ResumeTaskA == FALSE

\* lines 286-294, 305 and 431: a G key is read; handleInterruptG suspends Task A
K_KeyG(key, limit) ==
    /\ ~halted
    /\ KeyboardIdle
    /\ key \in KeyG
    /\ lookups < limit
    /\ lookups' = lookups + 1
    /\ taskASuspended' = SuspendTaskA
    /\ kpc' = "g_input"
    /\ history' = [history EXCEPT !.suspends = @ + 1]
    /\ UNCHANGED <<xTickCount, halted, currentTickTime, valueDStructure, randomSlotB,
                   randomSlotF, userInputAValue, lookupOutput, valueEStructure,
                   fileELineNumber, fileE, captures, attempts>>
    /\ UNCHANGED <<varsA, varsB>>

\* lines 433-434: the prompt and scanf.  converted: scanf converts the input
\* to v; otherwise userInputAValue keeps the indeterminate value v
G_Input(converted, v) ==
    /\ ~halted
    /\ kpc = "g_input"
    /\ userInputAValue' = v
    /\ kpc' = "g_scan"
    /\ history' = [history EXCEPT !.malformed = ~converted]
    /\ UNCHANGED <<xTickCount, halted, taskASuspended, currentTickTime,
                   valueDStructure, randomSlotB, randomSlotF, lookupOutput,
                   valueEStructure, fileELineNumber, fileE, captures, lookups,
                   attempts>>
    /\ UNCHANGED <<varsA, varsB>>

\* line 439: the loop runs while i < SIZE_OF_VALUE_E_STRUCTURE - 1
ScanLimit == SIZE_OF_VALUE_E_STRUCTURE - 1

\* line 444: the line printed for a slot that holds the value
FoundLine(ve, i) ==
    [kind         |-> "found",
     stringTime   |-> ve[i].randomValueB.stringTime,
     stringPlacer |-> StringOfE(ve, i)]

RECURSIVE ScanF(_, _, _)
\* lines 439-447: the lines printed for the slots i, i + 1, ... below ScanLimit
ScanF(ve, v, i) ==
    IF i < ScanLimit
    THEN (IF v = ve[i].currentValueD.randomNumber THEN <<FoundLine(ve, i)>> ELSE <<>>)
         \o ScanF(ve, v, i + 1)
    ELSE <<>>

\* lines 439-453: what the lookup prints
OutputOfLookup(ve, v) ==
    LET found == ScanF(ve, v, 0)
    IN  IF found = <<>> THEN <<[kind |-> "not found", value |-> v]>> ELSE found

\* the mutated loop clears the slots it reports
ListFAfterLookup_Consuming(ve, v) ==
    [f \in SlotsF |->
        IF (f < ScanLimit) /\ (v = ve[f].currentValueD.randomNumber)
        THEN ZeroValueE ELSE ve[f]]

\* lines 439-447 read valueEStructure and store nothing into it
ListFAfterLookup(ve, v) == ve

\* lines 438-453
G_Scan ==
    /\ ~halted
    /\ kpc = "g_scan"
    /\ lookupOutput' = OutputOfLookup(valueEStructure, userInputAValue)
    /\ valueEStructure' = ListFAfterLookup(valueEStructure, userInputAValue)
    /\ kpc' = "g_resume"
    /\ UNCHANGED <<xTickCount, halted, taskASuspended, currentTickTime,
                   valueDStructure, randomSlotB, randomSlotF, userInputAValue,
                   fileELineNumber, fileE, captures, lookups, attempts, history>>
    /\ UNCHANGED <<varsA, varsB>>

\* line 455: resume Task A; handleInterruptG returns to the keyboard task
G_Resume ==
    /\ ~halted
    /\ kpc = "g_resume"
    /\ taskASuspended' = ResumeTaskA
    /\ kpc' = "idle"
    /\ userInputAValue' = Int64Zero
    /\ lookupOutput' = <<>>
    /\ history' = [history EXCEPT !.resumes = @ + 1,
                                  !.malformed = FALSE,
                                  !.resumedMalformed = @ \/ history.malformed,
                                  !.sinceCapture =
                                      @ \cup {<<userInputAValue, lookupOutput>>}]
    /\ UNCHANGED <<xTickCount, halted, currentTickTime, valueDStructure, randomSlotB,
                   randomSlotF, valueEStructure, fileELineNumber, fileE, captures,
                   lookups, attempts>>
    /\ UNCHANGED <<varsA, varsB>>

(***************************************************************************)
(* Specifications.                                                         *)
(***************************************************************************)
\* Task A while it has published fewer than limit values
TaskA(limit) ==
    \/ \E g \in GeneratedNumbers : A_Generate(g, limit)
    \/ A_Print
    \/ A_Delay

\* Task B, when rand() returns a member of slots at line 252
TaskB(slots) ==
    \/ \E r \in RandForString, faults \in BOOLEAN : B_Generate(r, faults)
    \/ \E r \in slots : B_StoreTime(r)
    \/ B_StoreString
    \/ B_Delay

\* the keyboard task when C keys are pressed, at most limit times, and rand()
\* returns a member of slots at line 358
KeyboardC(limit, slots) ==
    \/ \E key \in KeyC : K_KeyC(key, limit)
    \/ \E key \in KeyOther : K_KeyOther(key)
    \/ C_Snapshot
    \/ \E r \in RandForSelection : C_Select(r)
    \/ \E r \in slots : C_StoreTime(r)
    \/ C_Copy
    \/ \E closeReturns \in BOOLEAN, opened \in BOOLEAN :
          C_WriteToFileE(closeReturns, opened)
    \/ C_Return

\* the keyboard task when G keys are pressed, at most limit times
KeyboardG(limit) ==
    \/ \E key \in KeyG : K_KeyG(key, limit)
    \/ \E v \in LookupInputs : G_Input(TRUE, v)
    \/ \E v \in Indeterminate : G_Input(FALSE, v)
    \/ G_Scan
    \/ G_Resume

\* the three tasks, captures and lookups
Next ==
    \/ Tick(0, MaxTicks)
    \/ TaskA(MaxAIters)
    \/ TaskB(RandForSlotOfB)
    \/ KeyboardC(MaxCaptures + 1, RandForSlotOfF)
    \/ KeyboardG(MaxLookups + 1)

Spec == Init /\ [][Next]_vars

\* Task A alone, for every pair of results of rand()
NextTaskA ==
    \/ \E g \in GeneratedNumbersWide : A_Generate(g, MaxAIters + 1)
    \/ A_Print
    \/ A_Delay

SpecTaskA == Init /\ [][NextTaskA]_vars

\* Task B alone, for every slot line 252 can choose, one stride longer
NextTaskB ==
    \/ Tick(0, MaxTicks + 1)
    \/ \E r \in RandForStringWide, faults \in BOOLEAN : B_Generate(r, faults)
    \/ \E r \in RandForSlotOfBWide : B_StoreTime(r)
    \/ B_StoreString
    \/ B_Delay

SpecTaskB == InitTaskB /\ [][NextTaskB]_vars

\* the three tasks with no lookup, Task A publishing one value more
NextCapture ==
    \/ Tick(0, MaxTicks)
    \/ TaskA(MaxAIters + 1)
    \/ TaskB(RandForSlotOfB)
    \/ KeyboardC(MaxCaptures + 1, RandForSlotOfF)

SpecCapture == Init /\ [][NextCapture]_vars

\* the three tasks, a capture and a lookup after a long run
NextLongRun ==
    \/ Tick(LongRunTick, MaxTicks)
    \/ TaskA(MaxAIters)
    \/ TaskB(RandForSlotOfBLongRun)
    \/ KeyboardC(MaxCaptures, RandForSlotOfF)
    \/ KeyboardG(MaxLookups)

SpecLongRun == InitLongRun /\ [][NextLongRun]_vars

\* Task A in a build for a 32-bit processor
TaskASplit(limit) ==
    \/ \E g \in GeneratedNumbers : A_StoreLow(g, limit)
    \/ A_StoreHigh
    \/ A_Print
    \/ A_Delay

\* the keyboard task and handleInterruptC in a build for a 32-bit processor
KeyboardCSplit(limit, slots) ==
    \/ \E key \in KeyC : K_KeyC(key, limit)
    \/ \E key \in KeyOther : K_KeyOther(key)
    \/ C_SnapshotLow
    \/ C_SnapshotHigh
    \/ \E r \in RandForSelection : C_Select(r)
    \/ \E r \in slots : C_StoreTime(r)
    \/ C_Copy
    \/ \E closeReturns \in BOOLEAN, opened \in BOOLEAN :
          C_WriteToFileE(closeReturns, opened)
    \/ C_Return

\* the three tasks with no lookup in a build for a 32-bit processor, Task A
\* publishing one value more
NextTearing ==
    \/ Tick(0, MaxTicks)
    \/ TaskASplit(MaxAIters + 1)
    \/ TaskB(RandForSlotOfB)
    \/ KeyboardCSplit(MaxCaptures, RandForSlotOfF)

SpecTearing == Init /\ [][NextTearing]_vars

\* the three tasks with no lookup, Task B generating either string and
\* choosing either of two slots
NextPairing ==
    \/ Tick(0, MaxTicks)
    \/ TaskA(MaxAIters)
    \/ \E r \in RandForStringWide, faults \in BOOLEAN : B_Generate(r, faults)
    \/ \E r \in RandForSlotOfBPairing : B_StoreTime(r)
    \/ B_StoreString
    \/ B_Delay
    \/ KeyboardC(MaxCaptures, RandForSlotOfF)

SpecPairing == Init /\ [][NextPairing]_vars

\* SpecPairing when every result of rand() at line 343 keeps coming (the
\* draws are fair) and the keyboard task keeps being scheduled
SpecPairingFair ==
    /\ SpecPairing
    /\ \A r \in RandForSelection : WF_vars(C_Select(r))


(***************************************************************************)
(* Properties of Task A.                                                   *)
(***************************************************************************)
\* the least and the greatest number of twelve decimal digits
LeastOfTwelveDigits == Int64FromDecimal(<<1, 0, 0, 0, 0, 0, 0, 0, 0, 0, 0, 0>>)
GreatestOfTwelveDigits == Int64FromDecimal(<<9, 9, 9, 9, 9, 9, 9, 9, 9, 9, 9, 9>>)

\* Task A has executed line 210 at least once
TaskAHasPublished == (apc # "generate") \/ (stdoutA.count > 0)

\* C1: once Task A has published, currentRandomNumberFromTaskA is an integer
\* of twelve decimal digits: 100000000000 <= value <= 999999999999.
C1_FastValueInRange ==
    TaskAHasPublished =>
        /\ Leq64(LeastOfTwelveDigits, currentRandomNumberFromTaskA)
        /\ Leq64(currentRandomNumberFromTaskA, GreatestOfTwelveDigits)

\* Task A has published and printed the greatest number lines 207-208 can
\* produce, 999999999998, and the least, 100000000000, is the value before it
C1_Witness ==
    /\ stdoutA.count > 0
    /\ apc = "print"
    /\ stdoutA.last = LeastOfTwelveDigits
    /\ currentRandomNumberFromTaskA =
          Sub64(GreatestOfTwelveDigits, Int64FromInt(1))

(***************************************************************************)
(* Properties of Task B.                                                   *)
(***************************************************************************)
\* C2: when a pass of Task B's loop has stored its string (lines 252-255),
\* every slot of taskBStructure other than the chosen one holds the
\* stringTime and the stringPlacer it held when the pass began.
C2_OneSlotOfBChanges ==
    (bpc = "delay") =>
        \A s \in SlotsB \ {randomSlot} : taskBStructure[s] = history.bAtStart[s]

\* C16: when Task B is about to choose its slot (line 252), for every slot
\* 0..4 of taskBStructure there is a result of rand() with which it chooses
\* that slot; when a capture is about to choose its slot (line 358), for every
\* slot 0..6 of valueEStructure there is a result of rand() with which it
\* chooses that slot.
C16_EverySlotIsATarget ==
    /\ (bpc = "slot") =>
          \A s \in SlotsB : \E r \in RandResidues : SlotChosenForB(r) = s
    /\ (kpc = "c_store_time") =>
          \A f \in SlotsF : \E r \in RandResidues : SlotChosenForF(r) = f

\* whatever rand() returns, no pass of Task B stores into the last slot of
\* taskBStructure
LastSlotOfBNeverChosen ==
    /\ (SIZE_OF_THE_TASK_B_ARRAY - 1) \notin history.bWritten
    /\ randomSlot # SIZE_OF_THE_TASK_B_ARRAY - 1

\* the part of C16 that is about valueEStructure
EverySlotOfFIsATarget ==
    (kpc = "c_store_time") =>
        \A f \in SlotsF : \E r \in RandResidues : SlotChosenForF(r) = f


(***************************************************************************)
(* Properties of handleInterruptC and writeToFileE.                        *)
(***************************************************************************)
\* handleInterruptC has stored the whole element of valueEStructure
CaptureHasStored == kpc \in {"c_log", "c_return"}

\* C3: when a capture has stored its element (lines 360-363) and when it has
\* logged it, the slot randomSlotF holds the value D of this capture and every
\* other slot of valueEStructure is as it was when the capture began.
C3_OneSlotOfFChanges ==
    CaptureHasStored =>
        /\ valueEStructure[randomSlotF].currentValueD = valueDStructure
        /\ \A f \in SlotsF \ {randomSlotF} :
              valueEStructure[f] = history.fAtTrigger[f]

\* C4: when a capture has written its line, the randomNumber of the slot it
\* stored and the randomNumber of the line it appended both equal the value
\* currentRandomNumberFromTaskA had when line 336 read it.
C4_ValueIsSnapshot ==
    (kpc = "c_return") =>
        /\ valueEStructure[randomSlotF].currentValueD.randomNumber =
              history.fastValueAtSnapshot
        /\ fileE.lines[Len(fileE.lines)].randomNumber =
              history.fastValueAtSnapshot

\* a capture has written its line and Task A has published another value
\* since the snapshot
C4_Witness ==
    /\ kpc = "c_return"
    /\ history.fastValueAtSnapshot # Int64Zero
    /\ currentRandomNumberFromTaskA # history.fastValueAtSnapshot

\* the lines of E.txt are numbered 0, 1, 2, ... in the order they were written
LinesInOrder == \A i \in 1..Len(fileE.lines) : fileE.lines[i].line = i - 1

\* C5: fileELineNumber is the number of captures that have written their line
\* (0 at the start, one more for each capture), and from the first capture on
\* E.txt holds exactly the lines 0 .. fileELineNumber - 1 in that order.
C5_LogSequence ==
    /\ fileELineNumber =
          history.capturesDone + (IF kpc = "c_return" THEN 1 ELSE 0)
    /\ (fileELineNumber > 0) =>
          /\ Len(fileE.lines) = fileELineNumber
          /\ LinesInOrder

\* two captures have written their lines
C5_Witness ==
    /\ kpc = "c_return"
    /\ fileELineNumber = MaxCaptures + 1
    /\ Len(fileE.lines) = MaxCaptures + 1

\* handleInterruptC has been called and has not returned
CaptureInProgress ==
    kpc \in {"c_snapshot", "c_snapshot_high", "c_select", "c_store_time", "c_copy", "c_log", "c_return"}

\* C11: at most one execution of handleInterruptC is in progress at any time
\* (the captures begun are the captures returned, and one more while the
\* keyboard task is inside handleInterruptC), and the line a capture has
\* written is the line of the element it stored, under the number
\* fileELineNumber had before its increment.
C11_OneCaptureAtATime ==
    /\ captures - history.capturesDone = (IF CaptureInProgress THEN 1 ELSE 0)
    /\ (kpc = "c_return") =>
          fileE.lines[Len(fileE.lines)] =
              LineOfE(fileELineNumber - 1, valueEStructure, randomSlotF)

\* a second capture is about to write its line after the first has returned
C11_Witness ==
    /\ kpc = "c_log"
    /\ captures = MaxCaptures + 1
    /\ history.capturesDone = MaxCaptures
    /\ fileELineNumber = MaxCaptures

\* the values currentRandomNumberFromTaskA holds between two publications:
\* the 0 main_payrange finds there and the numbers Task A generates
PublishedInFull == {Int64Zero} \cup GeneratedNumbers

\* C12: the value a capture has read as D (line 336) is a value
\* currentRandomNumberFromTaskA held before or after a publication of Task A,
\* never the low half of one value with the high half of another.
C12_SnapshotNotTorn ==
    (kpc \in {"c_select", "c_store_time", "c_copy", "c_log", "c_return"}) =>
        valueDStructure.randomNumber \in PublishedInFull

\* the stringTime and the string the capture in progress has copied
PairCopied ==
    [stringTime   |-> history.paired[randomSlotF].stringTime,
     stringPlacer |-> history.paired[randomSlotF].stringPlacer]

\* C13: the stringTime and the string a capture has copied into its element
\* (lines 360-361) are the stringTime and the string that one pass of Task B
\* stored together (lines 254-255).
C13_PairWrittenTogether ==
    (kpc \in {"c_log", "c_return"}) => (PairCopied \in history.bPairs)

\* the loop of lines 341-355 has chosen the slot randomSlotB
SlotOfBChosen == kpc \in {"c_store_time", "c_copy", "c_log", "c_return"}

\* C18 (the slot paired): the slot of taskBStructure a capture has chosen is
\* a slot into which a pass of Task B has stored its stringTime and its
\* string; and when that slot is the only one Task B has written, the
\* stringTime and the string the capture has copied are a stringTime and a
\* string Task B stored in it in one pass.
C18_PairsAnOccupiedSlot ==
    /\ SlotOfBChosen => (randomSlotB \in history.bWritten)
    /\ ((kpc \in {"c_log", "c_return"}) /\ (history.bWritten = {randomSlotB})) =>
          (PairCopied \in history.bPairs)

\* C18 (completion): a capture that is in the loop of lines 341-355 while the
\* stringTime of some slot is not 0 leaves the loop.
C18_EventuallyCompletes ==
    ((kpc = "c_select") /\ (\E s \in SlotsB : taskBStructure[s].stringTime # 0))
        ~> (kpc # "c_select")

\* a step of writeToFileE, on a file that exists, that appends no line
AppendFails ==
    /\ kpc = "c_log"
    /\ ~ClosesNull
    /\ (kpc' # kpc) \/ (halted' # halted)
    /\ fileE' = fileE

\* C19: when writeToFileE appends no line, the process keeps running and the
\* capture returns, the element stored in valueEStructure stays and
\* fileELineNumber keeps its value (the next line written gets this number).
C19_FailedAppendIsSurvived ==
    [][AppendFails =>
          /\ ~halted'
          /\ kpc' = "c_return"
          /\ valueEStructure' = valueEStructure
          /\ fileELineNumber' = fileELineNumber]_vars

\* C20: every slot of taskBStructure into which a pass of Task B has stored
\* its stringTime and its string passes the test of line 344 (its stringTime
\* is not 0), the slot written by the first pass included.
C20_WrittenSlotsAreOccupied ==
    \A s \in history.bWritten : ~SlotOfBIsEmpty(taskBStructure, s)

\* C10: a capture that began while no slot of taskBStructure had been written
\* gives up: it selects no slot of B, stores nothing into valueEStructure,
\* writes no line and does not advance fileELineNumber.
C10_CaptureUnavailable ==
    history.emptyAtTrigger =>
        /\ kpc \in {"c_snapshot", "c_select"}
        /\ valueEStructure = history.fAtTrigger
        /\ fileELineNumber = history.capturesDone


(***************************************************************************)
(* Properties of handleInterruptG.                                         *)
(***************************************************************************)
\* handleInterruptG is between its vTaskSuspend and its vTaskResume
LookupInProgress == kpc \in {"g_input", "g_scan", "g_resume"}

\* the lookup has printed the line of the pair p
Reports(p) ==
    \E i \in 1..Len(lookupOutput) :
        lookupOutput[i] = [kind         |-> "found",
                           stringTime   |-> p.stringTime,
                           stringPlacer |-> p.stringPlacer]

\* C6: when a lookup has scanned valueEStructure, for every slot a capture
\* has written whose last capture stored the value asked for, the lookup has
\* printed the stringTime and the string that capture paired with the value.
C6_RoundTrip ==
    (kpc = "g_resume") =>
        \A f \in history.fWritten :
            (history.paired[f].value = userInputAValue) =>
                Reports(history.paired[f])

\* the slots captures have written whose element holds the value asked for
SlotsHoldingQuery ==
    {f \in history.fWritten :
        valueEStructure[f].currentValueD.randomNumber = userInputAValue}

\* the least member of a non-empty set of slots
FirstOf(slots) == CHOOSE f \in slots : \A g \in slots : f <= g

\* C14: when a lookup for a number Task A generates has scanned
\* valueEStructure and more than one slot written by a capture holds that
\* number, the lookup has printed one line: the stringTime and the string of
\* the first of these slots.
C14_FirstMatchOnly ==
    ((kpc = "g_resume") /\ (userInputAValue \in GeneratedNumbers)
                       /\ (Cardinality(SlotsHoldingQuery) > 1)) =>
        lookupOutput = <<FoundLine(valueEStructure, FirstOf(SlotsHoldingQuery))>>

\* C15: when a lookup has scanned valueEStructure and no slot written by a
\* capture holds the value asked for (whether scanf converted the input or
\* not), the lookup has printed the "not found" line with that value and no
\* "found" line.
C15_FoundOnlyInWrittenSlots ==
    ((kpc = "g_resume") /\ (SlotsHoldingQuery = {})) =>
        lookupOutput = <<[kind |-> "not found", value |-> userInputAValue]>>

\* the lookups made since the last capture began gave one output per query
SameAnswers ==
    /\ \A p, q \in history.sinceCapture : (p[1] = q[1]) => (p[2] = q[2])
    /\ (kpc = "g_resume") =>
          \A p \in history.sinceCapture :
              (p[1] = userInputAValue) => (p[2] = lookupOutput)

\* a step of handleInterruptG
LookupStep ==
    /\ kpc' # kpc
    /\ (kpc \in {"g_input", "g_scan", "g_resume"})
          \/ (kpc' \in {"g_input", "g_scan", "g_resume"})

\* C7: two lookups for the same value with no capture begun between them
\* print the same lines, and no step of a lookup changes valueEStructure,
\* taskBStructure, fileELineNumber or E.txt.
C7_Idempotent ==
    /\ []SameAnswers
    /\ [][LookupStep =>
             UNCHANGED <<valueEStructure, taskBStructure, fileELineNumber, fileE>>]_vars

\* a second lookup for a value has found it, as the first did, after Task B
\* has stored a string
C7_Witness ==
    /\ kpc = "g_resume"
    /\ history.bWritten # {}
    /\ userInputAValue \in GeneratedNumbers
    /\ \E p \in history.sinceCapture :
          /\ p[1] = userInputAValue
          /\ p[2] = lookupOutput
          /\ lookupOutput[1].kind = "found"

\* C8: while handleInterruptG is between vTaskSuspend (line 431) and
\* vTaskResume (line 455), no step changes currentRandomNumberFromTaskA or
\* what Task A has printed.
C8_TaskAPaused ==
    [][LookupInProgress => UNCHANGED <<currentRandomNumberFromTaskA, stdoutA>>]_vars

\* handleInterruptG is scanning while Task A, suspended, has a published
\* value left to print
C8_Witness ==
    /\ kpc = "g_scan"
    /\ taskASuspended
    /\ apc = "print"

\* C17: whenever a lookup holds Task A suspended, Task A is at the boundary
\* of a cycle (in its delay of line 216 or about to generate), not between the
\* store of line 210 and the printf of line 214, and the value it has
\* published is the last value it has printed.
C17_FrozenAtTickBoundary ==
    (LookupInProgress /\ taskASuspended) =>
        /\ apc \in {"generate", "delay"}
        /\ TaskAHasPublished => (currentRandomNumberFromTaskA = stdoutA.last)

\* C9: while a lookup is in progress Task A is suspended and vTaskSuspend has
\* been called once more than vTaskResume; at every other time Task A is not
\* suspended and each lookup has called vTaskSuspend once and vTaskResume once.
C9_ResumedOnce ==
    /\ history.suspends = lookups
    /\ IF LookupInProgress
       THEN taskASuspended /\ (history.resumes = lookups - 1)
       ELSE ~taskASuspended /\ (history.resumes = lookups)

\* the keyboard task is idle and Task A runs after a lookup that found the
\* value and a lookup whose scanf converted nothing and that found nothing
C9_Witness ==
    /\ kpc = "idle"
    /\ lookups = MaxLookups + 1
    /\ ~taskASuspended
    /\ history.resumedMalformed
    /\ \E p, q \in history.sinceCapture :
          /\ p[1] \in GeneratedNumbers
          /\ p[2][1].kind = "found"
          /\ q[2][1].kind = "not found"

====
